---- MODULE Spec2Model ----
(***************************************************************************)
(* Model of src/script.js: the doodle canvas whose dots are played back as *)
(* music-box tones.                                                        *)
(*                                                                         *)
(* Numbers.  Pointer coordinates are finite numbers, taken here as whole   *)
(* pixels (possibly outside the canvas: a touch that started on the canvas *)
(* keeps reporting positions after it has left it).  The results of        *)
(* mapRange are carried as exact fractions [num, den]; Math.floor is the   *)
(* floor of that fraction.  Times are in milliseconds, loudness in         *)
(* thousandths, so that 0.2 is written 200 and 0.005 s is written 5.       *)
(***************************************************************************)
EXTENDS Integers, Sequences, FiniteSets, TLC

VARIABLES
    canvasWidth,        \* canvas.width (line 10, 12)
    drawnPoints,        \* the stroke store (line 18)
    isDrawing,          \* line 15
    currentBrushColor,  \* line 16
    currentBrushSize,   \* line 17
    audioCtx,           \* line 20, with the state of the context it names
    clock,              \* audioCtx.currentTime, in ms
    scheduled,          \* the tones submitted to the audio graph and not yet stopped
    playCount,          \* number of play clicks that reached the scheduler
    lastOp,             \* history: the handler that ran last, and what it saw
    probe               \* inputs and results of the pitch computation (SpecPitch)

vars == <<canvasWidth, drawnPoints, isDrawing, currentBrushColor, currentBrushSize,
          audioCtx, clock, scheduled, playCount, lastOp, probe>>

----------------------------------------------------------------------------
(* Bounds of the model *)

MaxPoints == 2        \* samples in the store, Spec
MaxPlays == 2         \* play clicks on a non-empty store, Spec
MaxTicks == 3         \* steps of the audio clock, Spec
MaxBatchPoints == 2   \* samples in the store, SpecBatch
YOut == 6             \* probed heights beyond each canvas edge, in steps of YStep, SpecPitch
XOut == 3             \* probed positions beyond each canvas edge, in tens of pixels, SpecSlot

----------------------------------------------------------------------------
(* Program constants *)

canvasHeight == 400
totalPlaybackDuration == 8
baseMidiRootNote == 60
minBrushSize == 2
maxBrushSize == 20

DIATONIC_MAJOR_INTERVALS == <<0, 2, 4, 5, 7, 9, 11>>

numTimeSteps == totalPlaybackDuration * 4

\* totalPlaybackDuration / numTimeSteps seconds, in ms
timeStepDuration == (totalPlaybackDuration * 1000) \div numTimeSteps

----------------------------------------------------------------------------
(* Arithmetic of the source *)

Min(a, b) == IF a < b THEN a ELSE b
Max(a, b) == IF a > b THEN a ELSE b

\* floor(a / b) for b # 0
FloorDiv(a, b) == IF b > 0 THEN a \div b ELSE (-a) \div (-b)

\* the remainder operator of the language: the sign follows the dividend
JsRem(a, b) == IF a >= 0 THEN a % b ELSE -((-a) % b)

\* (value - inMin) * (outMax - outMin) / (inMax - inMin) + outMin, as a fraction
mapRange(value, inMin, inMax, outMin, outMax) ==
    [num |-> (value - inMin) * (outMax - outMin) + outMin * (inMax - inMin),
     den |-> inMax - inMin]

MathFloor(q) == FloorDiv(q.num, q.den)

\* canvasWidth = Math.min(600, window.innerWidth - 60)
CanvasWidthOf(innerWidth) == Min(600, innerWidth - 60)

\* String.prototype.toUpperCase on the colour strings the palette can hold
toUpperCase(color) ==
    CASE color = "#ff0000" -> "#FF0000"
      [] color = "#00ff00" -> "#00FF00"
      [] color = "#0000ff" -> "#0000FF"
      [] color = "#ffff00" -> "#FFFF00"
      [] color = "#ffa500" -> "#FFA500"
      [] OTHER -> color

PENTATONIC_MAJOR_INTERVALS == <<0, 2, 4, 7, 9>>

\* mutant: yellow switched to the pentatonic scale
getColorOctaveAndScalePentatonic(color) ==
    LET c == toUpperCase(color)
    IN  [octaveOffset |-> CASE c = "#00FF00" -> 12 [] c = "#0000FF" -> -12 [] OTHER -> 0,
         scale |-> IF c = "#FFFF00" THEN PENTATONIC_MAJOR_INTERVALS
                   ELSE DIATONIC_MAJOR_INTERVALS]

getColorOctaveAndScale(color) ==
    LET c == toUpperCase(color)
        octaveOffset ==
            CASE c = "#FF0000" -> 0
              [] c = "#00FF00" -> 12
              [] c = "#0000FF" -> -12
              [] c = "#FFFF00" -> 0
              [] c = "#000000" -> 0
              [] OTHER -> 0
    IN  [octaveOffset |-> octaveOffset, scale |-> DIATONIC_MAJOR_INTERVALS]

\* mutant: the slot index mapped onto [0, numTimeSteps]
timeSlotIndexFull(x, width) == MathFloor(mapRange(x, 0, width, 0, numTimeSteps))

\* Math.floor(mapRange(point.x, 0, canvas.width, 0, numTimeSteps - 1))
timeSlotIndex(x, width) == MathFloor(mapRange(x, 0, width, 0, numTimeSteps - 1))

\* the test that guards the push into notesInTimeSlots
SlotKept(idx) == idx >= 0 /\ idx < numTimeSteps

\* mutant: the clamp without its upper limit
ClampUpperDropped(lo, hi, v) == Max(lo, v)

\* Math.max(lo, Math.min(hi, v))
Clamp(lo, hi, v) == Max(lo, Min(hi, v))

\* the clamped scale degree of a height y
scaleDegreeIndex(y, scale) ==
    LET numNotesInScaleDisplay == Len(scale) * 2
        raw == MathFloor(mapRange(y, canvasHeight, 0, 0, numNotesInScaleDisplay - 1))
    IN  Clamp(0, numNotesInScaleDisplay - 1, raw)

\* mutant: the octave within the canvas left out
MidiNoteFlat(root, octaveOffset, scale, d) ==
    root + octaveOffset + scale[JsRem(d, Len(scale)) + 1]

\* baseMidiRootNote + octaveOffset + octaveWithinCanvas * 12 + noteInScaleInterval
MidiNoteOf(root, octaveOffset, scale, d) ==
    LET octaveWithinCanvas == FloorDiv(d, Len(scale))
        noteInScaleInterval == scale[JsRem(d, Len(scale)) + 1]
    IN  root + octaveOffset + (octaveWithinCanvas * 12) + noteInScaleInterval

currentMidiNote(point) ==
    LET cs == getColorOctaveAndScale(point.color)
    IN  MidiNoteOf(baseMidiRootNote, cs.octaveOffset, cs.scale,
                   scaleDegreeIndex(point.y, cs.scale))

----------------------------------------------------------------------------
(* Input domains *)

InnerWidths == {400, 1280}

\* the brushes a sample can be drawn with: data-color of a brush, slider value
Brushes == {[color |-> "#FF0000", size |-> 5], [color |-> "#00ff00", size |-> 20]}

\* pointer positions relative to the canvas, and brushes, in Spec
DrawPositions == {[x |-> -5, y |-> 50], [x |-> 300, y |-> 50], [x |-> 300, y |-> 350]}
DrawBrushes == {[color |-> "#FF0000", size |-> 5]}

\* pointer positions relative to the canvas, in SpecBatch
BatchXs == {-5, 291, 300, 590}
BatchYs == {50, 350}

\* states a newly constructed context may report before the handler returns
FreshStates == {"suspended", "running"}

\* one step of the audio clock: half the playback duration, in ms
TickMs == totalPlaybackDuration * 500

----------------------------------------------------------------------------
(* The stroke store *)

\* drawnPoints.push({ x, y, color: currentBrushColor, size: currentBrushSize })
addPoint(points, x, y, color, size) ==
    Append(points, [x |-> x, y |-> y, color |-> color, size |-> size])

\* what clearCanvas leaves in drawnPoints
StoreAfterClear(points) == <<>>

----------------------------------------------------------------------------
(* Array.prototype.sort with the comparator (a, b) => a[field] - b[field]: stable *)

RECURSIVE InsertSorted(_, _, _)
InsertSorted(s, p, field) ==
    IF s = <<>> THEN <<p>>
    ELSE IF s[Len(s)][field] <= p[field] THEN Append(s, p)
    ELSE Append(InsertSorted(SubSeq(s, 1, Len(s) - 1), p, field), s[Len(s)])

RECURSIVE StableSort(_, _)
StableSort(s, field) ==
    IF s = <<>> THEN <<>>
    ELSE InsertSorted(StableSort(SubSeq(s, 1, Len(s) - 1), field), s[Len(s)], field)

----------------------------------------------------------------------------
(* The audio context *)

\* audioCtx before its construction; resumeCalls counts the resume() calls of the
\* handler that is running
NoAudio == [handle |-> 0, state |-> "none", resumePending |-> FALSE,
            constructed |-> 0, resumeCalls |-> 0]

\* mutant: a context constructed on every call
getAudioContextAlways(a, fresh) ==
    LET made == [a EXCEPT !.handle = a.constructed + 1, !.state = fresh,
                          !.constructed = a.constructed + 1]
    IN  IF made.state = "suspended"
        THEN [made EXCEPT !.resumePending = TRUE, !.resumeCalls = @ + 1]
        ELSE made

\* getAudioContext(): construct on first use, ask for a resume when suspended
getAudioContext(a, fresh) ==
    LET made == IF a.handle = 0
                THEN [a EXCEPT !.handle = a.constructed + 1, !.state = fresh,
                               !.constructed = a.constructed + 1]
                ELSE a
    IN  IF made.state = "suspended"
        THEN [made EXCEPT !.resumePending = TRUE, !.resumeCalls = @ + 1]
        ELSE made

\* osc.stop(time + duration + 0.1) has been reached at clock value clk
Ended(t, clk) ==
    clk * t.duration.den >= (t.time + 100) * t.duration.den + t.duration.num

\* createMusicBoxTone(time, midiNote, velocity, duration): one master gain and its
\* oscillators, started at time and stopped at time + duration + 0.1; order is the
\* position of the call within its batch
createMusicBoxTone(tone, a, graph, batch, order, fresh) ==
    [audio |-> getAudioContext(a, fresh),
     graph |-> graph \cup {[time |-> tone.time, midiNote |-> tone.midiNote,
                            velocity |-> tone.velocity, duration |-> tone.duration,
                            batch |-> batch, order |-> order]}]

\* mutant: clearing the canvas also drops the pending tones
GraphAfterClearCancels(graph) == {}

\* what clearCanvas leaves in the audio graph: it does not touch it
GraphAfterClear(graph) == graph

----------------------------------------------------------------------------
(* The play click handler *)

\* mutant: the empty check left out
NothingToPlayNever(points) == FALSE

\* the test that makes the handler return at once ("Nothing to play.")
NothingToPlay(points) == Len(points) = 0

\* [...drawnPoints].sort((a, b) => a.x - b.x)
sortedPoints(points) == StableSort(points, "x")

\* mutant: the store itself sorted, not a copy
StoreAfterPlaySorted(points) == StableSort(points, "x")

\* what the handler leaves in drawnPoints: it sorts a copy, never the store
StoreAfterPlay(points) == points

\* the forEach that pushes each sorted point into the slot of its index
notesInTimeSlots(sorted, width) ==
    [s \in 0..(numTimeSteps - 1) |->
        SelectSeq(sorted, LAMBDA p : LET i == timeSlotIndex(p.x, width)
                                     IN  SlotKept(i) /\ i = s)]

\* mutant: the slot not sorted by y before its first point is taken
representativePointUnsorted(pointsInSlot) == pointsInSlot[1]

\* pointsInSlot.sort((a, b) => a.y - b.y); pointsInSlot[0]
representativePoint(pointsInSlot) == StableSort(pointsInSlot, "y")[1]

\* mutant: every tone scheduled at the clock value of the call
scheduledTimeNow(now, slotIndex) == now

\* localAudioCtx.currentTime + slotIndex * timeStepDuration
scheduledTime(now, slotIndex) == now + slotIndex * timeStepDuration

\* the arguments of the createMusicBoxTone call of one non-empty slot
ToneOfSlot(pointsInSlot, slotIndex, now) ==
    LET rep == representativePoint(pointsInSlot)
    IN  [time |-> scheduledTime(now, slotIndex),
         midiNote |-> currentMidiNote(rep),
         velocity |-> mapRange(rep.size, minBrushSize, maxBrushSize, 200, 500),
         duration |-> mapRange(rep.size, minBrushSize, maxBrushSize, 800, 1500)]

\* notesInTimeSlots.forEach: the calls made, in order, from slot slotIndex on
RECURSIVE TonesFrom(_, _, _)
TonesFrom(slots, slotIndex, now) ==
    IF slotIndex >= numTimeSteps THEN <<>>
    ELSE IF slots[slotIndex] = <<>> THEN TonesFrom(slots, slotIndex + 1, now)
    ELSE <<ToneOfSlot(slots[slotIndex], slotIndex, now)>>
             \o TonesFrom(slots, slotIndex + 1, now)

PlayTones(points, width, now) ==
    TonesFrom(notesInTimeSlots(sortedPoints(points), width), 0, now)

\* the createMusicBoxTone calls of one batch, from the order-th on
RECURSIVE SubmitAll(_, _, _, _, _, _)
SubmitAll(tones, a, graph, batch, order, fresh) ==
    IF tones = <<>> THEN [audio |-> a, graph |-> graph]
    ELSE LET r == createMusicBoxTone(Head(tones), a, graph, batch, order, fresh)
         IN  SubmitAll(Tail(tones), r.audio, r.graph, batch, order + 1, fresh)

----------------------------------------------------------------------------
(* Initial state: the page after DOMContentLoaded *)

\* the history of a handler other than a play that reached the scheduler
Op(name) == [op |-> name, stateSeen |-> "none", resumed |-> FALSE, created |-> FALSE]

NoProbe == [kind |-> "none", pc |-> "out", color |-> "", y1 |-> 0, y2 |-> 0,
            d1 |-> 0, d2 |-> 0, note1 |-> 0, note2 |-> 0,
            x |-> 0, slot |-> 0, kept |-> FALSE]

InitPage(widths, brushes) ==
    /\ canvasWidth \in {CanvasWidthOf(w) : w \in widths}
    /\ isDrawing = FALSE
    /\ \E b \in brushes : currentBrushColor = b.color /\ currentBrushSize = b.size
    /\ audioCtx = NoAudio
    /\ clock = 0
    /\ scheduled = {}
    /\ playCount = 0
    /\ lastOp = Op("init")

Init == InitPage({1280}, DrawBrushes) /\ drawnPoints = <<>> /\ probe = NoProbe

----------------------------------------------------------------------------
(* Handlers *)

audioVars == <<audioCtx, clock, scheduled, playCount>>
brushVars == <<currentBrushColor, currentBrushSize>>

\* mousedown / touchstart
StartDrawingIn(positions, maxPoints) ==
    /\ Len(drawnPoints) < maxPoints
    /\ \E pos \in positions :
          drawnPoints' = addPoint(drawnPoints, pos.x, pos.y,
                                  currentBrushColor, currentBrushSize)
    /\ isDrawing' = TRUE
    /\ lastOp' = Op("addPoint")
    /\ UNCHANGED <<canvasWidth, brushVars, audioVars, probe>>

\* mousemove / touchmove while a stroke is open
DrawIn(positions, maxPoints) ==
    /\ isDrawing
    /\ Len(drawnPoints) < maxPoints
    /\ \E pos \in positions :
          drawnPoints' = addPoint(drawnPoints, pos.x, pos.y,
                                  currentBrushColor, currentBrushSize)
    /\ lastOp' = Op("addPoint")
    /\ UNCHANGED <<canvasWidth, isDrawing, brushVars, audioVars, probe>>

\* mousemove / touchmove with no stroke open: if (!isDrawing) return
DrawIgnored ==
    /\ ~isDrawing
    /\ lastOp' = Op("other")
    /\ UNCHANGED <<canvasWidth, drawnPoints, isDrawing, brushVars, audioVars, probe>>

\* mouseup / mouseout / touchend / touchcancel
StopDrawing ==
    /\ isDrawing' = FALSE
    /\ lastOp' = Op("other")
    /\ UNCHANGED <<canvasWidth, drawnPoints, brushVars, audioVars, probe>>

\* click on the clear button
ClearCanvas ==
    /\ drawnPoints' = StoreAfterClear(drawnPoints)
    /\ scheduled' = GraphAfterClear(scheduled)
    /\ lastOp' = Op("clearCanvas")
    /\ UNCHANGED <<canvasWidth, isDrawing, brushVars, audioCtx, clock, playCount, probe>>

\* click on a colour brush
SelectBrush(brushes) ==
    /\ \E b \in brushes : currentBrushColor' = b.color
    /\ lastOp' = Op("other")
    /\ UNCHANGED <<canvasWidth, drawnPoints, isDrawing, currentBrushSize, audioVars,
                   probe>>

\* input on the brush size slider
BrushSizeInput(brushes) ==
    /\ \E b \in brushes : currentBrushSize' = b.size
    /\ lastOp' = Op("other")
    /\ UNCHANGED <<canvasWidth, drawnPoints, isDrawing, currentBrushColor, audioVars,
                   probe>>

\* click on the play button with an empty store
PlayNothing ==
    /\ NothingToPlay(drawnPoints)
    /\ lastOp' = Op("play")
    /\ UNCHANGED <<canvasWidth, drawnPoints, isDrawing, brushVars, audioVars, probe>>

\* click on the play button: the whole batch is submitted before the handler returns
PlayBatch(maxPlays) ==
    /\ ~NothingToPlay(drawnPoints)
    /\ playCount < maxPlays
    /\ \E fresh \in FreshStates :
          LET entered == [audioCtx EXCEPT !.resumeCalls = 0]
              localAudioCtx == getAudioContext(entered, fresh)
              tones == PlayTones(drawnPoints, canvasWidth, clock)
              r == SubmitAll(tones, localAudioCtx, scheduled, playCount + 1, 1, fresh)
          IN  /\ audioCtx' = r.audio
              /\ scheduled' = r.graph
              /\ lastOp' = [op |-> "play",
                            stateSeen |-> localAudioCtx.state,
                            resumed |-> localAudioCtx.resumeCalls > 0,
                            created |-> localAudioCtx.constructed > audioCtx.constructed]
    /\ drawnPoints' = StoreAfterPlay(drawnPoints)
    /\ playCount' = playCount + 1
    /\ UNCHANGED <<canvasWidth, isDrawing, brushVars, clock, probe>>

PlaySound(maxPlays) == PlayNothing \/ PlayBatch(maxPlays)

----------------------------------------------------------------------------
(* The audio backend, outside the page's thread *)

\* the promise of resume() settles: the context runs
ResumeSettles ==
    /\ audioCtx.state = "suspended"
    /\ audioCtx.resumePending
    /\ audioCtx' = [audioCtx EXCEPT !.state = "running", !.resumePending = FALSE]
    /\ lastOp' = Op("other")
    /\ UNCHANGED <<canvasWidth, drawnPoints, isDrawing, brushVars, clock, scheduled,
                   playCount, probe>>

\* the platform suspends a running context
PlatformSuspend ==
    /\ audioCtx.state = "running"
    /\ audioCtx' = [audioCtx EXCEPT !.state = "suspended"]
    /\ lastOp' = Op("other")
    /\ UNCHANGED <<canvasWidth, drawnPoints, isDrawing, brushVars, clock, scheduled,
                   playCount, probe>>

\* the clock of a running context advances; oscillators past their stop time end
Tick ==
    /\ audioCtx.state = "running"
    /\ clock < MaxTicks * TickMs
    /\ clock' = clock + TickMs
    /\ scheduled' = {t \in scheduled : ~Ended(t, clock + TickMs)}
    /\ lastOp' = Op("other")
    /\ UNCHANGED <<canvasWidth, drawnPoints, isDrawing, brushVars, audioCtx, playCount,
                   probe>>

Next ==
    \/ StartDrawingIn(DrawPositions, MaxPoints)
    \/ DrawIn(DrawPositions, MaxPoints)
    \/ DrawIgnored
    \/ StopDrawing
    \/ ClearCanvas
    \/ SelectBrush(DrawBrushes)
    \/ BrushSizeInput(DrawBrushes)
    \/ PlaySound(MaxPlays)
    \/ ResumeSettles
    \/ PlatformSuspend
    \/ Tick

Spec == Init /\ [][Next]_vars

----------------------------------------------------------------------------
(* SpecBatch: one play click on every store of up to MaxBatchPoints samples,    *)
(* before the context exists or on a running context whose clock has advanced   *)

BatchSamples ==
    {[x |-> x, y |-> y, color |-> b.color, size |-> b.size] :
        x \in BatchXs, y \in BatchYs, b \in Brushes}

BatchStores == UNION {[1..n -> BatchSamples] : n \in 0..MaxBatchPoints}

\* the context of a page on which an earlier batch has been played to its end
RunningAudio == [handle |-> 1, state |-> "running", resumePending |-> FALSE,
                 constructed |-> 1, resumeCalls |-> 0]

InitBatch ==
    /\ canvasWidth = CanvasWidthOf(1280)
    /\ drawnPoints \in BatchStores
    /\ isDrawing = FALSE
    /\ currentBrushColor = "#FF0000"
    /\ currentBrushSize = 5
    /\ \/ audioCtx = NoAudio /\ clock = 0 /\ playCount = 0
       \/ audioCtx = RunningAudio /\ clock = 3 * TickMs /\ playCount = 1
    /\ scheduled = {}
    /\ lastOp = Op("other")
    /\ probe = NoProbe

NextBatch == PlayNothing \/ PlayBatch(2)

SpecBatch == InitBatch /\ [][NextBatch]_vars

----------------------------------------------------------------------------
(* SpecSlot: one sample drawn anywhere around the canvas, then played *)

SlotXs(width) ==
    {10 * k : k \in (-XOut)..((width \div 10) + XOut)} \cup {width - 1, width, width + 1}

SlotPositions(width) == {[x |-> x, y |-> 50] : x \in SlotXs(width)}

InitSlot == InitPage(InnerWidths, DrawBrushes) /\ drawnPoints = <<>> /\ probe = NoProbe

NextSlot ==
    \/ StartDrawingIn(SlotPositions(canvasWidth), 1)
    \/ PlayNothing
    \/ PlayBatch(1)

SpecSlot == InitSlot /\ [][NextSlot]_vars

----------------------------------------------------------------------------
(* SpecPitch: the pitch of two heights under one colour *)

Palette == {"#FF0000", "#00FF00", "#00ff00", "#0000FF", "#FFFF00", "#000000", "#FFA500"}

YStep == canvasHeight \div 40

PitchYs ==
    {YStep * k : k \in (-YOut)..(40 + YOut)}
        \cup {-1, 1, canvasHeight - 1, canvasHeight + 1}

PitchProbes ==
    {[NoProbe EXCEPT !.kind = "pitch", !.pc = "in", !.color = c, !.y1 = a, !.y2 = b] :
        c \in Palette, a \in PitchYs, b \in PitchYs}

InitPitch == InitPage({1280}, DrawBrushes) /\ drawnPoints = <<>> /\ probe \in PitchProbes

\* the pitch part of the play handler, applied to both heights
ResolvePitch ==
    /\ probe.kind = "pitch"
    /\ probe.pc = "in"
    /\ LET scale == getColorOctaveAndScale(probe.color).scale
           p1 == [x |-> 0, y |-> probe.y1, color |-> probe.color, size |-> currentBrushSize]
           p2 == [x |-> 0, y |-> probe.y2, color |-> probe.color, size |-> currentBrushSize]
       IN  probe' = [probe EXCEPT !.pc = "out",
                                  !.d1 = scaleDegreeIndex(probe.y1, scale),
                                  !.d2 = scaleDegreeIndex(probe.y2, scale),
                                  !.note1 = currentMidiNote(p1),
                                  !.note2 = currentMidiNote(p2)]
    /\ UNCHANGED <<canvasWidth, drawnPoints, isDrawing, brushVars, audioVars, lastOp>>

NextPitch == ResolvePitch

SpecPitch == InitPitch /\ [][NextPitch]_vars

----------------------------------------------------------------------------
(* Vocabulary of the properties *)

Batch(n) == {t \in scheduled : t.batch = n}

\* the tones submitted by the play click that ran last
LastBatch == Batch(playCount)

\* the play handler has just run on a non-empty store
JustPlayed == lastOp.op = "play" /\ drawnPoints # <<>>

\* floor of x mapped linearly from [0, canvasWidth] to [0, 31]
SlotOfX(x) == (x * 31) \div canvasWidth

MembersOfSlot(s) == {i \in 1..Len(drawnPoints) : SlotOfX(drawnPoints[i].x) = s}

\* sample i is preferred to sample j: lower y, then lower x, then drawn earlier
Preferred(i, j) ==
    LET p == drawnPoints[i]
        q == drawnPoints[j]
    IN  \/ p.y < q.y
        \/ p.y = q.y /\ p.x < q.x
        \/ p.y = q.y /\ p.x = q.x /\ i <= j

RepresentativeOf(s) ==
    drawnPoints[CHOOSE i \in MembersOfSlot(s) : \A j \in MembersOfSlot(s) : Preferred(i, j)]

\* the tones of the last batch that start at slot s: a quarter of a second per slot
TonesAt(s) == {t \in LastBatch : t.time = clock + s * 250}

----------------------------------------------------------------------------
(* C1: one play emits exactly one tone for each slot that holds a sample and none  *)
(* for an empty slot, and the tone's note, loudness and duration are those of the  *)
(* slot's sample with the least y, the first in the stable ascending-x order among *)
(* those of least y.                                                               *)
OneTonePerSlot ==
    JustPlayed =>
        /\ \A s \in 0..31 :
              IF MembersOfSlot(s) = {}
              THEN TonesAt(s) = {}
              ELSE /\ Cardinality(TonesAt(s)) = 1
                   /\ \A t \in TonesAt(s) :
                         LET rep == RepresentativeOf(s)
                         IN  /\ t.midiNote = currentMidiNote(rep)
                             /\ t.velocity = mapRange(rep.size, 2, 20, 200, 500)
                             /\ t.duration = mapRange(rep.size, 2, 20, 800, 1500)
        /\ \A t \in LastBatch : \E s \in 0..31 : t \in TonesAt(s)

\* two samples of slot 15 with the same y, the one drawn second lying further left:
\* the single tone is the second sample's
OneTonePerSlotWitness ==
    /\ JustPlayed
    /\ Len(drawnPoints) = 2
    /\ drawnPoints[1] = [x |-> 300, y |-> 50, color |-> "#FF0000", size |-> 5]
    /\ drawnPoints[2] = [x |-> 291, y |-> 50, color |-> "#00ff00", size |-> 20]
    /\ Cardinality(LastBatch) = 1
    /\ \A t \in LastBatch : t.midiNote = 91 /\ t.velocity = mapRange(20, 2, 20, 200, 500)

----------------------------------------------------------------------------
(* C10: within one play the tones are submitted in strictly increasing slot order, *)
(* each starting at the clock value of the call plus its slot index times a quarter *)
(* second; start times strictly increase, there are at most 32 tones, and every    *)
(* start lies between the clock value and the clock value plus 31 slots.           *)
BatchInSlotOrder ==
    JustPlayed =>
        /\ Cardinality(LastBatch) <= 32
        /\ {t.order : t \in LastBatch} = 1..Cardinality(LastBatch)
        /\ \A t \in LastBatch :
              /\ \E s \in 0..31 : MembersOfSlot(s) # {} /\ t.time = clock + s * 250
              /\ clock <= t.time
              /\ t.time <= clock + 31 * 250
        /\ \A t, u \in LastBatch : t.order < u.order => t.time < u.time

\* a batch of two tones submitted on a context whose clock has advanced
BatchInSlotOrderWitness ==
    /\ JustPlayed
    /\ clock > 0
    /\ Cardinality(LastBatch) = 2
    /\ \E t, u \in LastBatch : t.order = 1 /\ u.order = 2 /\ t.time < u.time

----------------------------------------------------------------------------
(* C2: after clearCanvas the store is empty, and a play click on an empty store    *)
(* submits no tone and changes nothing of the page or of the audio backend.        *)
ClearThenPlayIsNoOp ==
    /\ [](lastOp.op = "clearCanvas" => drawnPoints = <<>>)
    /\ [][(drawnPoints = <<>> /\ lastOp'.op = "play") =>
             UNCHANGED <<canvasWidth, drawnPoints, isDrawing, currentBrushColor,
                         currentBrushSize, audioCtx, clock, scheduled, playCount>>]_vars

\* a play click on a store that was played before and has been cleared since
ClearThenPlayWitness ==
    /\ lastOp.op = "play"
    /\ drawnPoints = <<>>
    /\ playCount >= 1
    /\ scheduled # {}

----------------------------------------------------------------------------
(* C3: a submitted tone stays in the audio graph, unaltered, until its own stop    *)
(* time, whatever handler runs; a later play adds a batch of its own and removes   *)
(* nothing.                                                                        *)
TonesNeverCancelled ==
    [][/\ \A t \in scheduled : t \in scheduled' \/ Ended(t, clock')
       /\ playCount' # playCount =>
             /\ scheduled \subseteq scheduled'
             /\ \A t \in scheduled' \ scheduled : t.batch = playCount']_vars

\* two batches pending together after the canvas has been cleared
TonesNeverCancelledWitness ==
    /\ lastOp.op = "clearCanvas"
    /\ Batch(1) # {}
    /\ Batch(2) # {}

----------------------------------------------------------------------------
(* C4: a play click leaves the store as it was; the tones it submits are those of  *)
(* the store at the click; adding a sample changes no submitted tone.              *)
PlayReadsSnapshot ==
    [][/\ lastOp'.op = "play" => drawnPoints' = drawnPoints
       /\ lastOp'.op = "addPoint" => scheduled' = scheduled
       /\ playCount' # playCount =>
             LET tones == PlayTones(drawnPoints, canvasWidth, clock)
             IN  {[time |-> t.time, midiNote |-> t.midiNote, velocity |-> t.velocity,
                   duration |-> t.duration] : t \in scheduled' \ scheduled}
                     = {tones[i] : i \in 1..Len(tones)}]_vars

\* a sample drawn above the first one after the first play: the first batch keeps
\* the lower note, the second batch has the higher one, the store is still unsorted
PlayReadsSnapshotWitness ==
    /\ lastOp.op = "play"
    /\ playCount = 2
    /\ clock = 0
    /\ Len(drawnPoints) = 2
    /\ drawnPoints[1].x = 300 /\ drawnPoints[1].y = 350
    /\ drawnPoints[2].x = 300 /\ drawnPoints[2].y = 50
    /\ \E t \in Batch(1) : t.midiNote = 62
    /\ \E t \in Batch(2) : t.midiNote = 79

----------------------------------------------------------------------------
(* C8: the audio context is constructed at most once, only by a play click on a    *)
(* non-empty store, and keeps its handle; every play click that reaches the        *)
(* scheduler has a context; a play that submits tones on a suspended context has   *)
(* asked for a resume before the first tone.                                       *)
AudioLazyAndResumed ==
    /\ [](/\ audioCtx.constructed <= 1
          /\ (JustPlayed /\ LastBatch # {} /\ lastOp.stateSeen = "suspended")
                => (lastOp.resumed /\ audioCtx.resumePending))
    /\ [][/\ audioCtx'.constructed # audioCtx.constructed =>
                (audioCtx.handle = 0 /\ drawnPoints # <<>> /\ lastOp'.op = "play")
          /\ audioCtx.handle # 0 => audioCtx'.handle = audioCtx.handle
          /\ playCount' # playCount => audioCtx'.handle # 0]_vars

\* a second play that finds the existing context suspended and asks for a resume
AudioLazyAndResumedWitness ==
    /\ JustPlayed
    /\ playCount = 2
    /\ LastBatch # {}
    /\ lastOp.stateSeen = "suspended"
    /\ ~lastOp.created
    /\ lastOp.resumed
    /\ audioCtx.constructed = 1

----------------------------------------------------------------------------
(* C9 as stated: no sample of the store is discarded by the bounds check, and no   *)
(* slot index reaches numTimeSteps.                                                *)
SlotCheckNeverDiscards ==
    (lastOp.op = "play" /\ Len(drawnPoints) = 1) =>
        /\ Cardinality(LastBatch) = 1
        /\ \A t \in LastBatch : t.time <= clock + 31 * 250

(* C9, amended: a sample with 0 <= x <= canvasWidth gets a slot index in [0, 31],  *)
(* 31 exactly at x = canvasWidth, and is played; a sample with x < 0 or            *)
(* x >= canvasWidth * 32 / 31 falls outside [0, 32) and is discarded.              *)
SlotCheckDiscardsOutside ==
    (lastOp.op = "play" /\ Len(drawnPoints) = 1) =>
        LET x == drawnPoints[1].x
        IN  /\ (0 <= x /\ x <= canvasWidth) =>
                  /\ Cardinality(LastBatch) = 1
                  /\ \A t \in LastBatch :
                        \E k \in 0..31 : /\ t.time = clock + k * 250
                                         /\ k = 31 <=> x = canvasWidth
            /\ (x < 0 \/ 31 * x >= 32 * canvasWidth) => LastBatch = {}

\* the sample on the right edge is played in slot 31
SlotCheckWitness ==
    /\ lastOp.op = "play"
    /\ Len(drawnPoints) = 1
    /\ drawnPoints[1].x = canvasWidth
    /\ \E t \in LastBatch : t.time = clock + 31 * 250

----------------------------------------------------------------------------
(* Vocabulary of the pitch properties *)

ProbeDone == probe.kind = "pitch" /\ probe.pc = "out"

IsGreen(c) == c \in {"#00FF00", "#00ff00"}

OctaveOffsetOf(c) ==
    IF c = "#FF0000" THEN 0
    ELSE IF IsGreen(c) THEN 12
    ELSE IF c = "#0000FF" THEN -12
    ELSE 0

\* the floor of y mapped linearly from [400, 0] to [0, 13], clamped to [0, 13]
DegreeOf(y) ==
    LET raw == ((400 - y) * 13) \div 400
    IN  IF raw < 0 THEN 0 ELSE IF raw > 13 THEN 13 ELSE raw

----------------------------------------------------------------------------
(* C5: for one colour, the note does not rise as y grows, also across the boundary *)
(* between the two displayed octaves.                                              *)
PitchMonotone ==
    (ProbeDone /\ probe.y1 <= probe.y2) => probe.note1 >= probe.note2

\* two heights on either side of the octave boundary
PitchMonotoneWitness ==
    /\ ProbeDone
    /\ probe.y1 < probe.y2
    /\ probe.d1 = 7
    /\ probe.d2 = 6
    /\ probe.note1 > probe.note2

----------------------------------------------------------------------------
(* C6: a height above the canvas gives the note of y = 0, a height below it the    *)
(* note of y = canvasHeight, and the scale degree always lies in [0, 13].          *)
PitchClamped ==
    ProbeDone =>
        /\ (probe.y1 < 0 /\ probe.y2 = 0) => probe.note1 = probe.note2
        /\ (probe.y1 > 400 /\ probe.y2 = 400) => probe.note1 = probe.note2
        /\ probe.d1 \in 0..13
        /\ probe.d2 \in 0..13

\* a height whose unclamped degree is 14, against y = 0
PitchClampedWitness ==
    /\ ProbeDone
    /\ probe.y1 = -60
    /\ probe.y2 = 0
    /\ probe.d1 = 13
    /\ probe.note1 = probe.note2

----------------------------------------------------------------------------
====
